---- MODULE Spec2Model ----
(***************************************************************************)
(* Ordered set (ADT Set) implemented as a (3,5) B-tree:                    *)
(* src/modules/UsingBTree/ADTSet.c, interface src/unnamed/part_000.        *)
(*                                                                         *)
(* The C heap is modelled as two arenas: tree-nodes (struct btree_node)    *)
(* and set-nodes (struct set_node).  A pointer is an arena index, NULL is  *)
(* 0.  Arrays keep every slot, also the stale ones beyond count.  malloc   *)
(* hands out the lowest free cell; free() leaves the contents of a cell    *)
(* untouched.  A read through a dangling pointer, a double free and a      *)
(* read of an uninitialised local are recorded in the flag ub; a NULL      *)
(* dereference or a failed assert in the flag crash.  An operation that    *)
(* performed undefined behaviour either aborts the process or carries on   *)
(* with what the cells hold.  over records a write past the end of an      *)
(* array of a tree-node, peak the highest count a tree-node ever reached,  *)
(* lost a separator search that did not find the tree-node among the       *)
(* children 0..count of its parent.                                        *)
(***************************************************************************)
EXTENDS Integers, Sequences, FiniteSets, TLC

\* ---------------------------------------------------------------- bounds
MaxKey == 5        \* keys offered to Spec are 1..MaxKey
MaxAlias == 1      \* keys 1..MaxAlias have a second handle that compares equal
MaxOps == 8        \* operations per run of Spec
MaxKeyIns == 7     \* keys offered to the insert-only specification
MaxOpsIns == 8     \* operations per run of the insert-only specification
MaxOpsDestroy == 6  \* inserts and removes before set_destroy
MaxKeyNav == 3     \* keys offered to the two-set specification
MaxOpsNav == 5     \* operations per run of the two-set specification
MaxKeyEq == 4      \* keys offered to the three-backend specification
MaxOpsEq == 5      \* operations per run of the three-backend specification
MaxKeyAsc == 9     \* keys offered to the ascending-insert specification
MaxOpsAsc == 10    \* operations per run of the ascending-insert specification
MaxKeyFill == 9    \* keys 1..MaxKeyFill fill the set of the fill-then-empty specification
MaxOpsFill == 18   \* operations per run of the fill-then-empty specification
MaxTN == 5         \* cells of the node arena of a BST or AVL set
MaxBN == 10        \* cells of the tree-node arena
MaxSN == 10        \* cells of the set-node arena

\* ------------------------------------------------------ program constants
MIN_CHILDREN == 3
MAX_CHILDREN == 5
MIN_VALUES == MIN_CHILDREN - 1
MAX_VALUES == MAX_CHILDREN - 1
NULL == 0

\* ----------------------------------------------------- caller's elements
\* An element handle is a positive integer: 2k is the first handle of key
\* k, 2k+1 a second one.  compare looks at the key only (the int the
\* pointer refers to).
KeyOf(v) == v \div 2
Handle(k) == 2 * k
Alias(k) == 2 * k + 1
Values == {Handle(k) : k \in 1..MaxKey} \cup {Alias(k) : k \in 1..MaxAlias}
ValuesIns == {Handle(k) : k \in 1..MaxKeyIns}
ValuesAsc == {Handle(k) : k \in 1..MaxKeyAsc}
compare(a, b) == KeyOf(a) - KeyOf(b)

\* ------------------------------------------------------------- the heap
BNIds == 1..MaxBN
SNIds == 1..MaxSN
ChildIdx == 0..MAX_CHILDREN
ValueIdx == 0..MAX_VALUES

ZeroBN == [alloc |-> FALSE, count |-> 0, parent |-> NULL,
           children |-> [i \in ChildIdx |-> NULL],
           set_nodes |-> [i \in ValueIdx |-> NULL]]
ZeroSN == [alloc |-> FALSE, value |-> NULL, owner |-> NULL]

EmptyHeap == [bn |-> [n \in 0..MaxBN |-> ZeroBN],
              sn |-> [s \in 0..MaxSN |-> ZeroSN],
              ub |-> FALSE, crash |-> FALSE, over |-> FALSE, peak |-> 0,
              lost |-> FALSE]

Min(S) == CHOOSE x \in S : \A y \in S : x <= y
Max(S) == CHOOSE x \in S : \A y \in S : x >= y

FreeBN(h) == {n \in BNIds : ~h.bn[n].alloc}
FreeSN(h) == {s \in SNIds : ~h.sn[s].alloc}

Crash(h) == [h EXCEPT !.crash = TRUE]
MarkUB(h, b) == IF b THEN [h EXCEPT !.ub = TRUE] ELSE h
\* a write past the end of set_nodes or children: also undefined behaviour
MarkOver(h, b) == IF b THEN [h EXCEPT !.ub = TRUE, !.over = TRUE] ELSE h
\* the search "while (parent->children[sep_index] != node && ++sep_index)"
\* went beyond slot count of the parent
MarkLost(h, b) == IF b THEN [h EXCEPT !.lost = TRUE] ELSE h

\* the set-node cell s is not a live allocation
Dangling(h, s) == s = NULL \/ ~h.sn[s].alloc

is_leaf(h, node) == h.bn[node].children[0] = NULL

\* calloc(1, sizeof(struct btree_node)): the lowest free cell, zeroed
node_create(h) ==
  LET n == Min(FreeBN(h))
  IN [h |-> [h EXCEPT !.bn[n] = [ZeroBN EXCEPT !.alloc = TRUE]], node |-> n]

\* malloc + value; owner keeps whatever the cell held
set_node_create(h, value) ==
  LET s == Min(FreeSN(h))
  IN [h |-> [h EXCEPT !.sn[s].alloc = TRUE, !.sn[s].value = value], set_node |-> s]

\* node_add_value: owner := node, shift set_nodes[index..count-1] one to
\* the right, store at index, count++.
node_add_value(h, node, set_node, index) ==
  IF h.crash THEN h
  ELSE IF node = NULL \/ set_node = NULL THEN Crash(h)
  ELSE
  LET c == h.bn[node].count
      old == h.bn[node].set_nodes
      oob == c > MAX_VALUES \/ index > MAX_VALUES
      new == [i \in ValueIdx |->
                IF i = index THEN set_node
                ELSE IF i > index /\ i <= c THEN old[i - 1]
                ELSE old[i]]
      h1 == MarkOver(MarkUB(h, ~h.sn[set_node].alloc), oob)
  IN [h1 EXCEPT !.sn[set_node].owner = node,
                !.bn[node].set_nodes = new,
                !.bn[node].count = c + 1,
                !.peak = IF c + 1 > h.peak THEN c + 1 ELSE h.peak]

\* node_add_child without line 409: the child keeps its old parent
node_add_child_orphan(h, node, child, index) ==
  IF h.crash THEN h
  ELSE IF node = NULL \/ child = NULL THEN Crash(h)
  ELSE
  LET c == h.bn[node].count
      old == h.bn[node].children
  IN [MarkOver(h, (c >= index /\ c + 1 > MAX_CHILDREN) \/ index > MAX_CHILDREN)
        EXCEPT !.bn[node].children =
                 [i \in ChildIdx |->
                    IF i = index THEN child
                    ELSE IF i > index /\ i <= c + 1 THEN old[i - 1]
                    ELSE old[i]]]

\* node_add_child: child->parent := node, shift children[index..count] one
\* to the right, store at index.  count is not changed.
node_add_child(h, node, child, index) ==
  IF h.crash THEN h
  ELSE IF node = NULL \/ child = NULL THEN Crash(h)
  ELSE
  LET c == h.bn[node].count
      old == h.bn[node].children
      oob == (c >= index /\ c + 1 > MAX_CHILDREN) \/ index > MAX_CHILDREN
      new == [i \in ChildIdx |->
                IF i = index THEN child
                ELSE IF i > index /\ i <= c + 1 THEN old[i - 1]
                ELSE old[i]]
      h1 == MarkOver(h, oob)
  IN [h1 EXCEPT !.bn[child].parent = node,
                !.bn[node].children = new]

\* ------------------------------------------------------------ node_find
\* Result: node, index (-1: absent), init (FALSE: *index was never
\* written), ub (a freed set-node was read on the way).
RECURSIVE node_find(_, _, _)
node_find(h, node, value) ==
  IF node = NULL
  THEN [node |-> NULL, index |-> -1, init |-> FALSE, ub |-> FALSE]
  ELSE
  LET c == h.bn[node].count
      sns == h.bn[node].set_nodes
      stop == {i \in 0..(c - 1) : i \in ValueIdx /\ compare(value, h.sn[sns[i]].value) <= 0}
      i == IF stop = {} THEN c ELSE Min(stop)
      read == {j \in 0..(c - 1) : j \in ValueIdx /\ j <= i}
      bad == \E j \in read : Dangling(h, sns[j])
      hit == stop # {} /\ compare(value, h.sn[sns[i]].value) = 0
  IN IF hit THEN [node |-> node, index |-> i, init |-> TRUE, ub |-> bad]
     ELSE IF is_leaf(h, node)
     THEN [node |-> node, index |-> -1, init |-> TRUE, ub |-> bad]
     ELSE LET r == node_find(h, IF i \in ChildIdx THEN h.bn[node].children[i] ELSE NULL, value)
          IN [r EXCEPT !.ub = r.ub \/ bad]

\* node_find_min / node_find_max: the set-node, NULL for an empty subtree
RECURSIVE node_find_min(_, _)
node_find_min(h, node) ==
  IF node = NULL THEN NULL
  ELSE IF h.bn[node].children[0] # NULL
       THEN node_find_min(h, h.bn[node].children[0])
       ELSE h.bn[node].set_nodes[0]

RECURSIVE node_find_max(_, _)
node_find_max(h, node) ==
  IF node = NULL THEN NULL
  ELSE LET c == h.bn[node].count
       IN IF c \notin ValueIdx \/ c = 0 THEN NULL
          ELSE IF h.bn[node].children[c] # NULL
               THEN node_find_max(h, h.bn[node].children[c])
               ELSE h.bn[node].set_nodes[c - 1]

\* e bound to the name that Op takes: "let x be e in Op(x)"
Bind(e, Op(_)) == Op(e)

\* --------------------------------------------------------------- split
\* lines 339-341: for (i = 0; i <= half; i++) node_add_child(right, node->children[i+half+1], i)
RECURSIVE split_children(_, _, _, _, _)
split_children(h, node, right, half, i) ==
  IF i > half \/ h.crash THEN h
  ELSE split_children(
         node_add_child(h, right,
                        IF i + half + 1 \in ChildIdx THEN h.bn[node].children[i + half + 1] ELSE NULL,
                        i),
         node, right, half, i + 1)

\* one pass of the loop body of lines 343-346: node_add_value(right,
\* node->set_nodes[i+half+1], i) is called twice, then node->count--
split_value(h, node, right, src, i) ==
  Bind(node_add_value(node_add_value(h, right, src, i), right, src, i),
       LAMBDA h2 : IF h2.crash THEN h2
                   ELSE [h2 EXCEPT !.bn[node].count = h2.bn[node].count - 1])

\* lines 343-346: for (i = 0; i < half; i++) ...
RECURSIVE split_values(_, _, _, _, _)
split_values(h, node, right, half, i) ==
  IF i >= half \/ h.crash THEN h
  ELSE split_values(
         split_value(h, node, right,
                     IF i + half + 1 \in ValueIdx THEN h.bn[node].set_nodes[i + half + 1] ELSE NULL,
                     i),
         node, right, half, i + 1)

RECURSIVE split(_, _)

\* split where line 359 links only node: right keeps parent NULL under the new root
split_new_root_unlinked(h, node, right, median) ==
  Bind(node_create(h), LAMBDA nr :
    Bind(node_add_value(nr.h, nr.node, median, 0), LAMBDA h4 :
      IF h4.crash THEN h4
      ELSE [h4 EXCEPT !.bn[node].parent = nr.node,
                      !.bn[nr.node].children[0] = node,
                      !.bn[nr.node].children[1] = right]))

\* lines 354-361: node was the root; a new root takes the median
split_new_root(h, node, right, median) ==
  Bind(node_create(h), LAMBDA nr :
    Bind(node_add_value(nr.h, nr.node, median, 0), LAMBDA h4 :
      IF h4.crash THEN h4
      ELSE [h4 EXCEPT !.bn[right].parent = nr.node,
                      !.bn[node].parent = nr.node,
                      !.bn[nr.node].children[0] = node,
                      !.bn[nr.node].children[1] = right]))

\* lines 363-374: the median goes into the parent, which may overflow in turn
split_into_parent(h, node, right, median, parent) ==
  LET pc == h.bn[parent].count
      lt == {i \in 0..(pc - 1) : i \in ValueIdx /\
               compare(h.sn[median].value, h.sn[h.bn[parent].set_nodes[i]].value) < 0}
      index == IF lt = {} THEN pc ELSE Min(lt)
      bad == Dangling(h, median) \/
             \E j \in 0..(pc - 1) : j \in ValueIdx /\ j <= index /\
                                    Dangling(h, h.bn[parent].set_nodes[j])
  IN Bind(node_add_value(node_add_child(MarkUB(h, bad), parent, right, index + 1),
                         parent, median, index),
          LAMBDA h5 : IF h5.crash THEN h5
                      ELSE IF h5.bn[parent].count > MAX_VALUES THEN split(h5, parent)
                      ELSE h5)

\* lines 348-353: take the median out of node, then hand it upwards
split_median(h, node, right) ==
  LET mi == h.bn[node].count - 1
      median == IF mi \in ValueIdx THEN h.bn[node].set_nodes[mi] ELSE NULL
      parent == h.bn[node].parent
  IN IF h.crash THEN h
     ELSE IF parent = NULL
     THEN split_new_root([h EXCEPT !.bn[node].count = mi], node, right, median)
     ELSE split_into_parent([h EXCEPT !.bn[node].count = mi], node, right, median, parent)

\* lines 338-346: move the upper children and values of node into right
split_move(h, node, right, half) ==
  split_values(IF ~is_leaf(h, node) THEN split_children(h, node, right, half, 0) ELSE h,
               node, right, half, 0)

\* split that leaves the overflowing node as it is
split_skip(h, node) == h

split(h, node) ==
  IF h.crash THEN h
  ELSE IF ~(h.bn[node].count > MAX_VALUES) THEN Crash(h)      \* assert
  ELSE Bind(node_create(h), LAMBDA cr :
         split_median(
           split_move([cr.h EXCEPT !.bn[cr.node].parent = h.bn[node].parent],
                      node, cr.node, h.bn[node].count \div 2),
           node, cr.node))

\* --------------------------------------------------------- node_insert
\* Result: h, root (the new root), inserted, old_value.

\* lines 313-324: a new value goes into the leaf node
insert_new(h, root, node, value) ==
  LET c == h.bn[node].count
      le == {i \in 0..(c - 1) : i \in ValueIdx /\
               ~(compare(value, h.sn[h.bn[node].set_nodes[i]].value) > 0)}
      index == IF le = {} THEN c ELSE Min(le)
  IN Bind(set_node_create(h, value), LAMBDA cs :
       Bind(node_add_value(cs.h, node, cs.set_node, index), LAMBDA h1 :
         Bind(IF h1.bn[node].count > MAX_VALUES THEN split(h1, node) ELSE h1, LAMBDA h2 :
           [h |-> h2,
            root |-> IF h2.bn[root].parent # NULL THEN h2.bn[root].parent ELSE root,
            inserted |-> TRUE, old_value |-> NULL])))

\* lines 295-300: the tree is empty
insert_first(h, value) ==
  Bind(node_create(h), LAMBDA cr :
    Bind(set_node_create(cr.h, value), LAMBDA cs :
      [h |-> node_add_value(cs.h, cr.node, cs.set_node, 0), root |-> cr.node,
       inserted |-> TRUE, old_value |-> NULL]))

\* lines 302-311 on the result f of node_find
insert_found(h, root, value, f) ==
  IF f.node = NULL
  THEN \* index is read uninitialised, then node (NULL) is dereferenced
       [h |-> Crash(MarkUB(h, TRUE)), root |-> root, inserted |-> FALSE, old_value |-> NULL]
  ELSE IF f.index # -1
  THEN LET s == h.bn[f.node].set_nodes[f.index]
       IN [h |-> [MarkUB(h, f.ub) EXCEPT !.sn[s].value = value], root |-> root,
           inserted |-> FALSE, old_value |-> h.sn[s].value]
  ELSE insert_new(MarkUB(h, f.ub), root, f.node, value)

node_insert(h, root, value) ==
  IF root = NULL THEN insert_first(h, value)
  ELSE insert_found(h, root, value, node_find(h, root, value))

\* ------------------------------------------------------------ siblings
get_right_sibling(h, node) ==
  LET parent == h.bn[node].parent
      pc == h.bn[parent].count
      at == {i \in 0..(pc - 1) : i \in ValueIdx /\ h.bn[parent].children[i] = node}
  IN IF parent # NULL /\ pc \in ChildIdx /\ h.bn[parent].children[pc] # node /\ at # {}
     THEN h.bn[parent].children[Min(at) + 1]
     ELSE NULL

get_left_sibling(h, node) ==
  LET parent == h.bn[node].parent
      pc == h.bn[parent].count
      at == {i \in 1..pc : i \in ChildIdx /\ h.bn[parent].children[i] = node}
  IN IF parent # NULL /\ h.bn[parent].children[0] # node /\ at # {}
     THEN h.bn[parent].children[Min(at) - 1]
     ELSE NULL

\* free(p) of a set-node: the cell is released, its contents stay
free_set_node(h, s) ==
  IF s = NULL THEN h
  ELSE [MarkUB(h, ~h.sn[s].alloc) EXCEPT !.sn[s].alloc = FALSE]

\* free(p) of a tree-node
free_node(h, n) ==
  IF n = NULL THEN h
  ELSE [MarkUB(h, ~h.bn[n].alloc) EXCEPT !.bn[n].alloc = FALSE]

\* ----------------------------------------------------------- transfers
\* lines 136-137 / 160-161: parent->set_nodes[sep_index] = up; up->owner = parent
set_separator(h, parent, sep_index, up) ==
  IF h.crash THEN h
  ELSE IF up = NULL THEN Crash(h)
  ELSE [MarkUB(h, ~h.sn[up].alloc) EXCEPT !.bn[parent].set_nodes[sep_index] = up,
                                          !.sn[up].owner = parent]

\* lines 132-137: the separator comes down to slot 0 of node, left's last goes up
right_rotate_values(h, node, left, parent, sep_index) ==
  Bind(node_add_value(h, node, h.bn[parent].set_nodes[sep_index], 0), LAMBDA h1 :
    set_separator(h1, parent, sep_index,
                  IF h1.bn[left].count - 1 \in ValueIdx
                  THEN h1.bn[left].set_nodes[h1.bn[left].count - 1] ELSE NULL))

\* lines 139-144: left's last child moves over, left->count--
right_rotate_child(h, node, left) ==
  IF h.crash THEN h
  ELSE Bind(IF ~is_leaf(h, node)
            THEN node_add_child(h, node,
                                IF h.bn[left].count \in ChildIdx
                                THEN h.bn[left].children[h.bn[left].count] ELSE NULL, 0)
            ELSE h,
            LAMBDA h3 : IF h3.crash THEN h3
                        ELSE [h3 EXCEPT !.bn[left].count = h3.bn[left].count - 1])

\* tranfer_right: node takes the separator, the parent takes left's last
tranfer_right(h, node, left) ==
  LET parent == h.bn[node].parent
      at == {k \in 0..(MAX_CHILDREN - 1) : h.bn[parent].children[k + 1] = node}
  IN IF h.crash THEN h
     ELSE IF parent = NULL THEN Crash(h)
     ELSE IF at = {} \/ Min(at) \notin ValueIdx THEN Crash(MarkLost(MarkUB(h, TRUE), TRUE))
     ELSE IF left = NULL THEN Crash(MarkLost(h, Min(at) + 1 > h.bn[parent].count))
     ELSE right_rotate_child(
            right_rotate_values(MarkLost(h, Min(at) + 1 > h.bn[parent].count),
                                node, left, parent, Min(at)),
            node, left)

\* lines 156-161: the separator comes down to the end of node, right's first goes up
left_rotate_values(h, node, right, parent, sep_index) ==
  Bind(node_add_value(h, node, h.bn[parent].set_nodes[sep_index], h.bn[node].count),
       LAMBDA h1 : set_separator(h1, parent, sep_index, h1.bn[right].set_nodes[0]))

\* lines 167-175: right's values and children slide one to the left, right->count--
left_rotate_shift(h, right) ==
  LET rc == h.bn[right].count
      osn == h.bn[right].set_nodes
      och == h.bn[right].children
  IN IF h.crash THEN h
     ELSE [h EXCEPT
            !.bn[right].set_nodes =
               [i \in ValueIdx |-> IF i < rc - 1 /\ i + 1 \in ValueIdx THEN osn[i + 1] ELSE osn[i]],
            !.bn[right].children =
               [i \in ChildIdx |-> IF i < rc /\ i + 1 \in ChildIdx THEN och[i + 1] ELSE och[i]],
            !.bn[right].count = rc - 1]

\* lines 163-165: right's first child moves over
left_rotate_child(h, node, right) ==
  IF h.crash THEN h
  ELSE IF ~is_leaf(h, node)
  THEN node_add_child(h, node, h.bn[right].children[0], h.bn[node].count)
  ELSE h

\* transfer_left: node takes the separator, the parent takes right's first
transfer_left(h, node, right) ==
  LET parent == h.bn[node].parent
      at == {k \in ChildIdx : h.bn[parent].children[k] = node}
  IN IF h.crash THEN h
     ELSE IF parent = NULL THEN Crash(h)
     ELSE IF at = {} \/ Min(at) \notin ValueIdx THEN Crash(MarkLost(MarkUB(h, TRUE), TRUE))
     ELSE IF right = NULL THEN Crash(MarkLost(h, Min(at) > h.bn[parent].count))
     ELSE left_rotate_shift(
            left_rotate_child(
              left_rotate_values(MarkLost(h, Min(at) > h.bn[parent].count),
                                 node, right, parent, Min(at)),
              node, right),
            right)

\* ---------------------------------------------- merge, repair_underflow
\* lines 194-196; left->count is fixed during the loop
RECURSIVE merge_children(_, _, _, _)
merge_children(h, left, right, i) ==
  IF i > h.bn[right].count \/ h.crash THEN h
  ELSE merge_children(
         node_add_child(h, left,
                        IF i \in ChildIdx THEN h.bn[right].children[i] ELSE NULL,
                        h.bn[left].count + i),
         left, right, i + 1)

\* lines 199-200
RECURSIVE merge_values(_, _, _, _)
merge_values(h, left, right, i) ==
  IF i >= h.bn[right].count \/ h.crash THEN h
  ELSE merge_values(
         node_add_value(h, left,
                        IF i \in ValueIdx THEN h.bn[right].set_nodes[i] ELSE NULL,
                        h.bn[left].count),
         left, right, i + 1)

\* lines 190-200: separator, children and values of right arrive in left
merge_into_left(h, left, right, parent, sep_index) ==
  Bind(node_add_value(h, left, h.bn[parent].set_nodes[sep_index], h.bn[left].count),
       LAMBDA h1 : merge_values(IF h1.crash THEN h1
                                ELSE IF ~is_leaf(h1, right) THEN merge_children(h1, left, right, 0)
                                ELSE h1,
                                left, right, 0))

\* lines 204-210: close the gap in the parent, parent->count--, free(right)
merge_close_gap(h, right, parent, sep_index) ==
  LET pc == h.bn[parent].count
      osn == h.bn[parent].set_nodes
      och == h.bn[parent].children
  IN IF h.crash THEN h
     ELSE free_node(
            [h EXCEPT
               !.bn[parent].set_nodes =
                  [i \in ValueIdx |->
                     IF sep_index <= i /\ i < pc - 1 /\ i + 1 \in ValueIdx THEN osn[i + 1] ELSE osn[i]],
               !.bn[parent].children =
                  [j \in ChildIdx |->
                     IF sep_index + 1 <= j /\ j < pc /\ j + 1 \in ChildIdx THEN och[j + 1] ELSE och[j]],
               !.bn[parent].count = pc - 1],
            right)

RECURSIVE merge(_, _, _)
RECURSIVE repair_underflow(_, _)

merge(h, left, right) ==
  LET parent == h.bn[left].parent
      at == {k \in ChildIdx : h.bn[parent].children[k] = left}
  IN IF h.crash THEN h
     ELSE IF left = NULL \/ parent = NULL THEN Crash(h)
     ELSE IF at = {} \/ Min(at) \notin ValueIdx THEN Crash(MarkLost(MarkUB(h, TRUE), TRUE))
     ELSE IF right = NULL THEN Crash(MarkLost(h, Min(at) > h.bn[parent].count))
     ELSE repair_underflow(
            merge_close_gap(
              merge_into_left(MarkLost(h, Min(at) > h.bn[parent].count),
                              left, right, parent, Min(at)),
              right, parent, Min(at)),
            parent)

repair_underflow(h, node) ==
  IF h.crash THEN h
  ELSE IF node = NULL \/ h.bn[node].count >= MIN_VALUES \/ h.bn[node].parent = NULL THEN h
  ELSE
  LET left_sibling == get_left_sibling(h, node)
      right_sibling == get_right_sibling(h, node)
  IN IF right_sibling # NULL /\ h.bn[right_sibling].count > MIN_VALUES
     THEN transfer_left(h, node, right_sibling)
     ELSE IF left_sibling # NULL /\ h.bn[left_sibling].count > MIN_VALUES
     THEN tranfer_right(h, node, left_sibling)
     ELSE IF left_sibling # NULL
     THEN merge(h, left_sibling, node)
     ELSE merge(h, node, right_sibling)

\* --------------------------------------------------------- node_remove
\* Result: h, root (the new root), removed, old_value.

\* lines 241-249: the value leaves a leaf
remove_from_leaf(h, node, index) ==
  LET c == h.bn[node].count
      osn == h.bn[node].set_nodes
  IN repair_underflow(
       [h EXCEPT
          !.bn[node].set_nodes =
             [i \in ValueIdx |->
                IF index <= i /\ i < c - 1 /\ i + 1 \in ValueIdx THEN osn[i + 1] ELSE osn[i]],
          !.bn[node].count = c - 1],
       node)

\* lines 251-267: the value is a separator; the greatest element max of the
\* subtree left of it takes its slot and leaves its own tree-node max->owner
replace_by_max(h, node, index, max) ==
  LET max_node == h.sn[max].owner
  IN IF max = NULL \/ max_node = NULL THEN Crash(h)
     ELSE [MarkUB(h, ~h.sn[max].alloc)
             EXCEPT !.bn[max_node].count = h.bn[max_node].count - 1,
                    !.bn[node].set_nodes[index] = max,
                    !.sn[max].owner = node]

\* line 266: the repair starts at the tree-node that max has left
remove_from_internal(h, node, index, max) ==
  repair_underflow(replace_by_max(h, node, index, max), h.sn[max].owner)

\* node_remove without lines 269-278: an emptied root stays the root
remove_finish_keep(h, root, old_value) ==
  [h |-> h, root |-> root, removed |-> TRUE, old_value |-> old_value]

\* lines 269-278: an emptied root is freed, its first child becomes the root
remove_finish(h, root, old_value) ==
  IF h.crash \/ h.bn[root].count # 0
  THEN [h |-> h, root |-> root, removed |-> TRUE, old_value |-> old_value]
  ELSE LET first_child == h.bn[root].children[0]
       IN [h |-> free_node(IF first_child # NULL
                           THEN [h EXCEPT !.bn[first_child].parent = NULL]
                           ELSE h,
                           root),
           root |-> first_child, removed |-> TRUE, old_value |-> old_value]

\* lines 235-267 with s = node->set_nodes[index]
remove_found(h, root, node, index, s) ==
  Bind(free_set_node(MarkUB(h, Dangling(h, s)), s), LAMBDA h0 :
    remove_finish(IF is_leaf(h0, node)
                  THEN remove_from_leaf(h0, node, index)
                  ELSE remove_from_internal(h0, node, index,
                                            node_find_max(h0, h0.bn[node].children[index])),
                  root, h.sn[s].value))

\* lines 227-233 on the result f of node_find
remove_lookup(h, root, f) ==
  IF f.index = -1
  THEN [h |-> MarkUB(h, f.ub \/ ~f.init), root |-> root, removed |-> FALSE, old_value |-> NULL]
  ELSE remove_found(MarkUB(h, f.ub), root, f.node, f.index, h.bn[f.node].set_nodes[f.index])

node_remove(h, root, value) ==
  IF root = NULL
  THEN [h |-> h, root |-> root, removed |-> FALSE, old_value |-> NULL]
  ELSE remove_lookup(h, root, node_find(h, root, value))

\* ----------------------------------------------------------- traversal
\* the loop of lines 539-540: climb while the parent's last value is smaller
RECURSIVE climb_next(_, _, _)
climb_next(h, btree_node, value) ==
  LET parent == h.bn[btree_node].parent
      pc == h.bn[parent].count
  IN IF parent # NULL /\ pc - 1 \in ValueIdx /\
        compare(value, h.sn[h.bn[parent].set_nodes[pc - 1]].value) > 0
     THEN climb_next(h, parent, value)
     ELSE btree_node

\* the loop of lines 507-508: climb while the parent's first value is greater
RECURSIVE climb_previous(_, _, _)
climb_previous(h, btree_node, value) ==
  LET parent == h.bn[btree_node].parent
  IN IF parent # NULL /\ compare(value, h.sn[h.bn[parent].set_nodes[0]].value) < 0
     THEN climb_previous(h, parent, value)
     ELSE btree_node

\* Result: ret (a set-node or NULL), crash (assert failed or NULL followed).
node_find_next(h, set_node) ==
  LET owner == h.sn[set_node].owner
      at == {i \in 0..(MAX_VALUES - 1) : h.bn[owner].set_nodes[i] = set_node}
  IN IF set_node = NULL \/ owner = NULL \/ at = {}
     THEN [ret |-> NULL, crash |-> TRUE]
     ELSE
     LET index == Min(at)
         value == h.sn[set_node].value
     IN IF ~is_leaf(h, owner)
        THEN [ret |-> node_find_min(h, h.bn[owner].children[index + 1]), crash |-> FALSE]
        ELSE IF index = h.bn[owner].count - 1
        THEN LET top == climb_next(h, owner, value)
                 parent == h.bn[top].parent
                 gt == {i \in 0..(h.bn[parent].count - 1) : i \in ValueIdx /\
                          compare(value, h.sn[h.bn[parent].set_nodes[i]].value) < 0}
             IN IF parent = NULL THEN [ret |-> NULL, crash |-> FALSE]
                ELSE IF gt # {}
                THEN [ret |-> h.bn[parent].set_nodes[Min(gt)], crash |-> FALSE]
                ELSE [ret |-> h.bn[top].set_nodes[index + 1], crash |-> FALSE]
        ELSE [ret |-> h.bn[owner].set_nodes[index + 1], crash |-> FALSE]

node_find_previous(h, set_node) ==
  LET owner == h.sn[set_node].owner
      at == {i \in 0..(MAX_VALUES - 1) : h.bn[owner].set_nodes[i] = set_node}
  IN IF set_node = NULL \/ owner = NULL \/ at = {}
     THEN [ret |-> NULL, crash |-> TRUE]
     ELSE
     LET index == Min(at)
         value == h.sn[set_node].value
     IN IF ~is_leaf(h, owner)
        THEN [ret |-> node_find_max(h, h.bn[owner].children[index]), crash |-> FALSE]
        ELSE IF index = 0
        THEN LET top == climb_previous(h, owner, value)
                 parent == h.bn[top].parent
                 lt == {i \in 0..(h.bn[parent].count - 1) : i \in ValueIdx /\
                          compare(value, h.sn[h.bn[parent].set_nodes[i]].value) > 0}
             IN IF parent = NULL THEN [ret |-> NULL, crash |-> FALSE]
                ELSE IF lt # {}
                THEN [ret |-> h.bn[parent].set_nodes[Max(lt)], crash |-> FALSE]
                ELSE [ret |-> NULL, crash |-> TRUE]    \* set_nodes[-1]
        ELSE [ret |-> h.bn[owner].set_nodes[index - 1], crash |-> FALSE]

\* -------------------------------------------------------- btree_destroy
\* d is [h, calls]: the heap and the arguments the destructor got so far;
\* destroy_value says that a destructor is installed.
RECURSIVE btree_destroy(_, _, _)

\* lines 475-476: for (i = 0; i <= node->count; i++) btree_destroy(children[i])
RECURSIVE destroy_children(_, _, _, _)
destroy_children(d, node, destroy_value, i) ==
  IF d.h.crash \/ i > d.h.bn[node].count THEN d
  ELSE IF i \notin ChildIdx THEN [d EXCEPT !.h = MarkUB(d.h, TRUE)]
  ELSE destroy_children(btree_destroy(d, d.h.bn[node].children[i], destroy_value),
                        node, destroy_value, i + 1)

\* lines 479-483 for one slot: destroy_value(set_nodes[i]->value), free(set_nodes[i])
destroy_slot(d, s, destroy_value) ==
  IF s = NULL THEN [d EXCEPT !.h = IF destroy_value THEN Crash(d.h) ELSE d.h]
  ELSE [h |-> free_set_node(MarkUB(d.h, destroy_value /\ ~d.h.sn[s].alloc), s),
        calls |-> IF destroy_value THEN Append(d.calls, d.h.sn[s].value) ELSE d.calls]

\* lines 478-484: for (i = 0; i < node->count; i++) ...
RECURSIVE destroy_values(_, _, _, _)
destroy_values(d, node, destroy_value, i) ==
  IF d.h.crash \/ i >= d.h.bn[node].count THEN d
  ELSE IF i \notin ValueIdx THEN [d EXCEPT !.h = MarkUB(d.h, TRUE)]
  ELSE destroy_values(destroy_slot(d, d.h.bn[node].set_nodes[i], destroy_value),
                      node, destroy_value, i + 1)

btree_destroy(d, node, destroy_value) ==
  IF node = NULL \/ d.h.crash THEN d
  ELSE Bind(destroy_values(destroy_children([d EXCEPT !.h = MarkUB(d.h, ~d.h.bn[node].alloc)],
                                            node, destroy_value, 0),
                           node, destroy_value, 0),
            LAMBDA d2 : IF d2.h.crash THEN d2 ELSE [d2 EXCEPT !.h = free_node(d2.h, node)])

\* ------------------------------------------------------- set_is_proper
\* get_height: the height along children[0]; valid is FALSE when somewhere
\* in the subtree a child 1..count has another height than child 0
RECURSIVE get_height(_, _)
get_height(h, node) ==
  IF node = NULL THEN [height |-> 0, valid |-> TRUE]
  ELSE LET sub(i) == get_height(h, h.bn[node].children[i])
           height == 1 + sub(0).height
       IN [height |-> height,
           valid |-> \A i \in {j \in ChildIdx : j <= h.bn[node].count} :
                       sub(i).valid /\ (i >= 1 => height = 1 + sub(i).height)]

is_valid_height(h, root) == get_height(h, root).valid

is_valid_parent(h, node) ==
  \/ node = NULL
  \/ is_leaf(h, node)
  \/ \A i \in {j \in ChildIdx : j <= h.bn[node].count} :
       h.bn[h.bn[node].children[i]].parent = node

\* node_is_btree, lines 688-745; a cell is read as what it holds
RECURSIVE node_is_btree(_, _)
node_is_btree(h, node) ==
  IF node = NULL THEN TRUE
  ELSE
  LET c == h.bn[node].count
      ch == h.bn[node].children
      val(i) == h.sn[h.bn[node].set_nodes[i]].value
      left_max(i) == node_find_max(h, ch[i])
      right_min(i) == node_find_min(h, ch[i + 1])
      left_last(i) == IF ch[i] # NULL
                      THEN h.sn[h.bn[ch[i]].set_nodes[h.bn[ch[i]].count - 1]].value ELSE NULL
      right_first(i) == IF ch[i + 1] # NULL
                        THEN h.sn[h.bn[ch[i + 1]].set_nodes[0]].value ELSE NULL
  IN /\ ~(c > MAX_VALUES)
     /\ ~(h.bn[node].parent # NULL /\ c < MIN_VALUES)
     /\ \A i \in 0..(c - 2) : ~(compare(val(i), val(i + 1)) >= 0)
     /\ ~(h.bn[node].parent = NULL /\ ~is_valid_height(h, node))
     /\ is_valid_parent(h, node)
     /\ \A i \in 0..(c - 1) :
          /\ left_last(i) = NULL \/ compare(left_last(i), val(i)) < 0
          /\ right_first(i) = NULL \/ compare(right_first(i), val(i)) > 0
          /\ left_max(i) = NULL \/ compare(h.sn[left_max(i)].value, val(i)) < 0
          /\ right_min(i) = NULL \/ compare(h.sn[right_min(i)].value, val(i)) > 0
          /\ node_is_btree(h, ch[i])
          /\ i = c - 1 => node_is_btree(h, ch[c])

\* every cell that node_is_btree may read in the subtree is a live
\* allocation: the tree-nodes, their elements 0..count-1 and, in an
\* internal node, the children 0..count
RECURSIVE proper_defined(_, _)
proper_defined(h, node) ==
  \/ node = NULL
  \/ /\ h.bn[node].alloc
     /\ h.bn[node].count \in ValueIdx
     /\ \A i \in 0..(h.bn[node].count - 1) : ~Dangling(h, h.bn[node].set_nodes[i])
     /\ \/ is_leaf(h, node)
        \/ \A i \in 0..h.bn[node].count :
             h.bn[node].children[i] # NULL /\ proper_defined(h, h.bn[node].children[i])

\* set_is_proper: ret is the verdict, ub says that it came from reading a
\* NULL or freed cell and is not determined
set_is_proper(h, r) == [ret |-> node_is_btree(h, r), ub |-> ~proper_defined(h, r)]

\* ------------------------------------------------- the other backends
\* A set of the BST or of the AVL backend: its own arena tn of nodes, the
\* fields of struct set, and what the last call returned (ret), passed to
\* the visit function or to the destructor (calls), and whether it ended
\* the process (crash).
TNIds == 1..MaxTN

ZeroBSTNode == [alloc |-> FALSE, left |-> NULL, right |-> NULL, value |-> NULL]
ZeroAVLNode == [alloc |-> FALSE, left |-> NULL, right |-> NULL, value |-> NULL, height |-> 0]

EmptyBST == [tn |-> [n \in 0..MaxTN |-> ZeroBSTNode], root |-> NULL, size |-> 0,
             ret |-> FALSE, calls |-> <<>>, crash |-> FALSE]
EmptyAVL == [tn |-> [n \in 0..MaxTN |-> ZeroAVLNode], root |-> NULL, size |-> 0,
             ret |-> FALSE, calls |-> <<>>, crash |-> FALSE]

\* --------------------------------- UsingBinarySearchTree/ADTSet.c (BST)
\* tn is the arena of nodes.  Results carry the arena: tn, node (the new
\* root of the subtree), and what the C code returns through pointers.
FreeTN(tn) == {n \in TNIds : ~tn[n].alloc}

bst_node_create(tn, value) ==
  Bind(Min(FreeTN(tn)), LAMBDA n :
    [tn |-> [tn EXCEPT ![n] = [alloc |-> TRUE, left |-> NULL, right |-> NULL, value |-> value]],
     node |-> n])

RECURSIVE bst_node_find_equal(_, _, _)
bst_node_find_equal(tn, node, value) ==
  IF node = NULL THEN NULL
  ELSE IF compare(value, tn[node].value) = 0 THEN node
  ELSE IF compare(value, tn[node].value) < 0 THEN bst_node_find_equal(tn, tn[node].left, value)
  ELSE bst_node_find_equal(tn, tn[node].right, value)

RECURSIVE bst_node_find_min(_, _)
bst_node_find_min(tn, node) ==
  IF node # NULL /\ tn[node].left # NULL THEN bst_node_find_min(tn, tn[node].left) ELSE node

RECURSIVE bst_node_find_max(_, _)
bst_node_find_max(tn, node) ==
  IF node # NULL /\ tn[node].right # NULL THEN bst_node_find_max(tn, tn[node].right) ELSE node

\* target is a node of the subtree of node
RECURSIVE bst_node_find_next(_, _, _)
bst_node_find_next(tn, node, target) ==
  IF node = target THEN bst_node_find_min(tn, tn[node].right)
  ELSE IF compare(tn[target].value, tn[node].value) > 0
  THEN bst_node_find_next(tn, tn[node].right, target)
  ELSE Bind(bst_node_find_next(tn, tn[node].left, target),
            LAMBDA res : IF res # NULL THEN res ELSE node)

\* Result: tn, node, inserted, old_value
RECURSIVE bst_node_insert(_, _, _)
bst_node_insert(tn, node, value) ==
  IF node = NULL
  THEN Bind(bst_node_create(tn, value), LAMBDA c :
         [tn |-> c.tn, node |-> c.node, inserted |-> TRUE, old_value |-> NULL])
  ELSE IF compare(value, tn[node].value) = 0
  THEN [tn |-> [tn EXCEPT ![node].value = value], node |-> node,
        inserted |-> FALSE, old_value |-> tn[node].value]
  ELSE IF compare(value, tn[node].value) < 0
  THEN Bind(bst_node_insert(tn, tn[node].left, value), LAMBDA r :
         [r EXCEPT !.tn = [r.tn EXCEPT ![node].left = r.node], !.node = node])
  ELSE Bind(bst_node_insert(tn, tn[node].right, value), LAMBDA r :
         [r EXCEPT !.tn = [r.tn EXCEPT ![node].right = r.node], !.node = node])

\* Result: tn, node (the new root of the subtree), min_node
RECURSIVE bst_node_remove_min(_, _)
bst_node_remove_min(tn, node) ==
  IF tn[node].left = NULL
  THEN [tn |-> tn, node |-> tn[node].right, min_node |-> node]
  ELSE Bind(bst_node_remove_min(tn, tn[node].left), LAMBDA r :
         [r EXCEPT !.tn = [r.tn EXCEPT ![node].left = r.node], !.node = node])

\* lines 205-218: both children exist
bst_remove_inner(tn, node) ==
  Bind(bst_node_remove_min(tn, tn[node].right), LAMBDA r :
    [tn |-> [r.tn EXCEPT ![r.min_node].left = tn[node].left,
                         ![r.min_node].right = r.node,
                         ![node].right = r.node,
                         ![node].alloc = FALSE],
     node |-> r.min_node, removed |-> TRUE, old_value |-> tn[node].value])

\* Result: tn, node, removed, old_value (NULL unless written)
RECURSIVE bst_node_remove(_, _, _)
bst_node_remove(tn, node, value) ==
  IF node = NULL
  THEN [tn |-> tn, node |-> NULL, removed |-> FALSE, old_value |-> NULL]
  ELSE IF compare(value, tn[node].value) = 0
  THEN IF tn[node].left = NULL
       THEN [tn |-> [tn EXCEPT ![node].alloc = FALSE], node |-> tn[node].right,
             removed |-> TRUE, old_value |-> tn[node].value]
       ELSE IF tn[node].right = NULL
       THEN [tn |-> [tn EXCEPT ![node].alloc = FALSE], node |-> tn[node].left,
             removed |-> TRUE, old_value |-> tn[node].value]
       ELSE bst_remove_inner(tn, node)
  ELSE IF compare(value, tn[node].value) < 0
  THEN Bind(bst_node_remove(tn, tn[node].left, value), LAMBDA r :
         [r EXCEPT !.tn = [r.tn EXCEPT ![node].left = r.node], !.node = node])
  ELSE Bind(bst_node_remove(tn, tn[node].right, value), LAMBDA r :
         [r EXCEPT !.tn = [r.tn EXCEPT ![node].right = r.node], !.node = node])

\* node_destroy, lines 232-244: the children first; then, when a
\* destructor is installed, destroy_value(node->value), and after that
\* statement destroy_value(node->value) once more, whether installed or
\* not: a call through NULL ends the process.  d is [tn, calls, crash].
RECURSIVE bst_node_destroy(_, _, _)
bst_node_destroy(d, node, destroy_value) ==
  IF node = NULL \/ d.crash THEN d
  ELSE Bind(bst_node_destroy(bst_node_destroy(d, d.tn[node].left, destroy_value),
                             d.tn[node].right, destroy_value),
            LAMBDA d2 :
              IF d2.crash THEN d2
              ELSE IF ~destroy_value THEN [d2 EXCEPT !.crash = TRUE]
              ELSE [tn |-> [d2.tn EXCEPT ![node].alloc = FALSE],
                    calls |-> d2.calls \o <<d2.tn[node].value, d2.tn[node].value>>,
                    crash |-> FALSE])

\* set_visit, lines 370-377: from set_first with set_next, and in the body
\* of the loop visit(set_node_value(set, node)) twice
RECURSIVE bst_visit_from(_, _, _)
bst_visit_from(tn, root, node) ==
  IF node = NULL THEN <<>>
  ELSE <<tn[node].value, tn[node].value>> \o
       bst_visit_from(tn, root, bst_node_find_next(tn, root, node))

bst_set_visit(tn, root) == bst_visit_from(tn, root, bst_node_find_min(tn, root))

bst_set_find(t, value) ==
  Bind(bst_node_find_equal(t.tn, t.root, value),
       LAMBDA node : IF node = NULL THEN NULL ELSE t.tn[node].value)

\* set_first / set_next until SET_EOF: the values passed
RECURSIVE bst_walk(_, _, _)
bst_walk(tn, root, node) ==
  IF node = NULL THEN <<>>
  ELSE <<tn[node].value>> \o bst_walk(tn, root, bst_node_find_next(tn, root, node))

\* ------------------------------------------------ UsingAVL/ADTSet.c (AVL)
int_max(a, b) == IF a > b THEN a ELSE b

node_height(tn, node) == IF node = NULL THEN 0 ELSE tn[node].height

node_update_height(tn, node) ==
  [tn EXCEPT ![node].height =
     1 + int_max(node_height(tn, tn[node].left), node_height(tn, tn[node].right))]

node_balance(tn, node) == node_height(tn, tn[node].left) - node_height(tn, tn[node].right)

\* Result of a rotation and of node_repair_balance: tn, node (the new root
\* of the subtree)
node_rotate_left(tn, node) ==
  Bind(tn[node].right, LAMBDA right_node :
    [tn |-> node_update_height(
              node_update_height(
                [tn EXCEPT ![right_node].left = node, ![node].right = tn[right_node].left],
                node),
              right_node),
     node |-> right_node])

node_rotate_right(tn, node) ==
  Bind(tn[node].left, LAMBDA left_node :
    [tn |-> node_update_height(
              node_update_height(
                [tn EXCEPT ![left_node].right = node, ![node].left = tn[left_node].right],
                node),
              left_node),
     node |-> left_node])

node_rotate_left_right(tn, node) ==
  Bind(node_rotate_left(tn, tn[node].left), LAMBDA r :
    node_rotate_right([r.tn EXCEPT ![node].left = r.node], node))

node_rotate_right_left(tn, node) ==
  Bind(node_rotate_right(tn, tn[node].right), LAMBDA r :
    node_rotate_left([r.tn EXCEPT ![node].right = r.node], node))

node_repair_balance(tn0, node) ==
  Bind(node_update_height(tn0, node), LAMBDA tn :
    IF node_balance(tn, node) > 1
    THEN IF node_balance(tn, tn[node].left) >= 0
         THEN node_rotate_right(tn, node)
         ELSE node_rotate_left_right(tn, node)
    ELSE IF node_balance(tn, node) < -1
    THEN IF node_balance(tn, tn[node].right) <= 0
         THEN node_rotate_left(tn, node)
         ELSE node_rotate_right_left(tn, node)
    ELSE [tn |-> tn, node |-> node])

avl_node_create(tn, value) ==
  Bind(Min(FreeTN(tn)), LAMBDA n :
    [tn |-> [tn EXCEPT ![n] = [alloc |-> TRUE, left |-> NULL, right |-> NULL,
                               value |-> value, height |-> 1]],
     node |-> n])

\* r is the result for the left child of node: node->left = r.node, then the
\* subtree of node is repaired
avl_relink_left(r, node) ==
  Bind(node_repair_balance([r.tn EXCEPT ![node].left = r.node], node), LAMBDA b :
    [r EXCEPT !.tn = b.tn, !.node = b.node])

\* the same for the right child
avl_relink_right(r, node) ==
  Bind(node_repair_balance([r.tn EXCEPT ![node].right = r.node], node), LAMBDA b :
    [r EXCEPT !.tn = b.tn, !.node = b.node])

\* Result: tn, node, inserted, old_value
RECURSIVE avl_node_insert(_, _, _)
avl_node_insert(tn, node, value) ==
  IF node = NULL
  THEN Bind(avl_node_create(tn, value), LAMBDA c :
         [tn |-> c.tn, node |-> c.node, inserted |-> TRUE, old_value |-> NULL])
  ELSE IF compare(value, tn[node].value) = 0
  THEN Bind(node_repair_balance([tn EXCEPT ![node].value = value], node), LAMBDA b :
         [tn |-> b.tn, node |-> b.node, inserted |-> FALSE, old_value |-> tn[node].value])
  ELSE IF compare(value, tn[node].value) < 0
  THEN avl_relink_left(avl_node_insert(tn, tn[node].left, value), node)
  ELSE avl_relink_right(avl_node_insert(tn, tn[node].right, value), node)

\* Result: tn, node, min_node
RECURSIVE avl_node_remove_min(_, _)
avl_node_remove_min(tn, node) ==
  IF tn[node].left = NULL
  THEN [tn |-> tn, node |-> tn[node].right, min_node |-> node]
  ELSE avl_relink_left(avl_node_remove_min(tn, tn[node].left), node)

\* lines 309-323: both children exist
avl_remove_inner(tn, node) ==
  Bind(avl_node_remove_min(tn, tn[node].right), LAMBDA r :
    Bind(node_repair_balance([r.tn EXCEPT ![r.min_node].left = tn[node].left,
                                          ![r.min_node].right = r.node,
                                          ![node].right = r.node,
                                          ![node].alloc = FALSE],
                             r.min_node),
         LAMBDA b : [tn |-> b.tn, node |-> b.node, removed |-> TRUE,
                     old_value |-> tn[node].value]))

\* Result: tn, node, removed, old_value
RECURSIVE avl_node_remove(_, _, _)
avl_node_remove(tn, node, value) ==
  IF node = NULL
  THEN [tn |-> tn, node |-> NULL, removed |-> FALSE, old_value |-> NULL]
  ELSE IF compare(value, tn[node].value) = 0
  THEN IF tn[node].left = NULL
       THEN [tn |-> [tn EXCEPT ![node].alloc = FALSE], node |-> tn[node].right,
             removed |-> TRUE, old_value |-> tn[node].value]
       ELSE IF tn[node].right = NULL
       THEN [tn |-> [tn EXCEPT ![node].alloc = FALSE], node |-> tn[node].left,
             removed |-> TRUE, old_value |-> tn[node].value]
       ELSE avl_remove_inner(tn, node)
  ELSE IF compare(value, tn[node].value) < 0
  THEN avl_relink_left(avl_node_remove(tn, tn[node].left, value), node)
  ELSE avl_relink_right(avl_node_remove(tn, tn[node].right, value), node)

\* node_destroy, lines 337-349: as in the BST backend, destroy_value is
\* called a second time outside the test for NULL.  d is [tn, calls, crash].
RECURSIVE avl_node_destroy(_, _, _)
avl_node_destroy(d, node, destroy_value) ==
  IF node = NULL \/ d.crash THEN d
  ELSE Bind(avl_node_destroy(avl_node_destroy(d, d.tn[node].left, destroy_value),
                             d.tn[node].right, destroy_value),
            LAMBDA d2 :
              IF d2.crash THEN d2
              ELSE IF ~destroy_value THEN [d2 EXCEPT !.crash = TRUE]
              ELSE [tn |-> [d2.tn EXCEPT ![node].alloc = FALSE],
                    calls |-> d2.calls \o <<d2.tn[node].value, d2.tn[node].value>>,
                    crash |-> FALSE])

\* set_visit, lines 486-488: the body is empty, visit is never called
avl_set_visit(tn, root) == <<>>

\* ------------------------------------------------------- the set facade
\* heap .. ops: the heap and one B-tree set with its client's bookkeeping;
\* other: the root of a second B-tree set in the same heap; bst, avl: the
\* same client's sets of the two other backends
VARIABLES heap, root, size, destroy_value, members, last, ops, other, bst, avl

peers == <<other, bst, avl>>
vars == <<heap, root, size, destroy_value, members, last, ops, other, bst, avl>>

set_size == size

set_find_node(h, r, value) ==
  LET f == node_find(h, r, value)
  IN IF f.node # NULL /\ f.index # -1 THEN h.bn[f.node].set_nodes[f.index] ELSE NULL

set_find(h, r, value) ==
  LET node == set_find_node(h, r, value)
  IN IF node # NULL THEN h.sn[node].value ELSE NULL

set_first(h, r) == node_find_min(h, r)
set_last(h, r) == node_find_max(h, r)
set_next(h, node) == node_find_next(h, node)
set_previous(h, node) == node_find_previous(h, node)
set_node_value(h, node) == h.sn[node].value

\* btree_set_visit (lines 757-764): in-order walk; num_keys is read as
\* count and keys[i] as the value stored in set_nodes[i]
RECURSIVE btree_set_visit(_, _)
btree_set_visit(h, node) ==
  IF node = NULL THEN <<>>
  ELSE LET c == h.bn[node].count
           F[i \in 0..c] ==
             IF i = c
             THEN btree_set_visit(h, IF c \in ChildIdx THEN h.bn[node].children[c] ELSE NULL)
             ELSE btree_set_visit(h, h.bn[node].children[i])
                  \o <<h.sn[h.bn[node].set_nodes[i]].value>>
       IN IF c \notin ValueIdx THEN <<>>
          ELSE LET G[i \in 0..c] == IF i = 0 THEN F[0] ELSE G[i - 1] \o F[i]
               IN G[c]

\* result of set_create(compare, destroy_value)
Init ==
  /\ heap = EmptyHeap
  /\ root = NULL
  /\ size = 0
  /\ destroy_value \in BOOLEAN          \* TRUE: a destructor is installed
  /\ members = {}
  /\ last = [op |-> "create", arg |-> NULL, ret |-> FALSE, done |-> TRUE, calls |-> <<>>]
  /\ ops = 0
  /\ other = NULL
  /\ bst = EmptyBST
  /\ avl = EmptyAVL

\* levels of tree-nodes below and including node, along child 0
RECURSIVE Height(_, _)
Height(h, node) == IF node = NULL THEN 0 ELSE 1 + Height(h, h.bn[node].children[0])

\* the process has not aborted
Running == ~heap.crash

\* the arenas can serve one more insertion: one set-node, and one tree-node
\* per level (a split at every level) plus a new root
Room ==
  /\ Cardinality(FreeSN(heap)) >= 1
  /\ Cardinality(FreeBN(heap)) >= Height(heap, root) + 1

\* the process aborts inside an operation
Abort(op, v) ==
  /\ heap' = [heap EXCEPT !.crash = TRUE]
  /\ last' = [op |-> op, arg |-> v, ret |-> FALSE, done |-> FALSE, calls |-> <<>>]
  /\ ops' = ops + 1
  /\ UNCHANGED <<root, size, destroy_value, members>>

\* set_insert(set, value), lines 616-627
Insert(value) ==
  /\ Running /\ Room
  /\ \E r \in {node_insert([heap EXCEPT !.ub = FALSE], root, value)} :
       \/ /\ r.h.crash \/ r.h.ub
          /\ Abort("insert", value)
       \/ /\ ~r.h.crash
          /\ heap' = [r.h EXCEPT !.ub = heap.ub \/ r.h.ub]
          /\ root' = r.root
          /\ size' = IF r.inserted THEN size + 1 ELSE size
          /\ members' = {m \in members : compare(m, value) # 0} \cup {value}
          /\ last' = [op |-> "insert", arg |-> value, ret |-> r.inserted, done |-> TRUE,
                      calls |-> IF ~r.inserted /\ destroy_value THEN <<r.old_value>> ELSE <<>>]
          /\ ops' = ops + 1
          /\ UNCHANGED destroy_value

\* set_remove(set, value), lines 578-593
Remove(value) ==
  /\ Running
  /\ \E r \in {node_remove([heap EXCEPT !.ub = FALSE], root, value)} :
       \/ /\ r.h.crash \/ r.h.ub
          /\ Abort("remove", value)
       \/ /\ ~r.h.crash
          /\ heap' = [r.h EXCEPT !.ub = heap.ub \/ r.h.ub]
          /\ root' = r.root
          /\ size' = IF r.removed THEN size - 1 ELSE size
          /\ members' = {m \in members : compare(m, value) # 0}
          /\ last' = [op |-> "remove", arg |-> value, ret |-> r.removed, done |-> TRUE,
                      calls |-> IF r.removed /\ destroy_value THEN <<r.old_value>> ELSE <<>>]
          /\ ops' = ops + 1
          /\ UNCHANGED destroy_value

\* set_visit(set, visit), lines 766-770; calls records the arguments of visit
Visit ==
  /\ Running
  /\ last' = [op |-> "visit", arg |-> NULL, ret |-> FALSE, done |-> TRUE,
              calls |-> btree_set_visit(heap, root)]
  /\ ops' = ops + 1
  /\ UNCHANGED <<heap, root, size, destroy_value, members>>

Next ==
  \/ ops < MaxOps /\ UNCHANGED peers /\ \E v \in Values : Insert(v)
  \/ ops < MaxOps /\ UNCHANGED peers /\ \E v \in Values : Remove(v)
  \/ ops < MaxOps /\ UNCHANGED peers /\ Visit

Spec == Init /\ [][Next]_vars

\* v compares equal to a member of the abstract set
Member(v) == \E m \in members : compare(m, v) = 0

\* a set created with a destructor, on which only set_insert is called
InitIns == Init /\ destroy_value

NextIns == ops < MaxOpsIns /\ UNCHANGED peers /\ \E v \in ValuesIns : Insert(v)

SpecIns == InitIns /\ [][NextIns]_vars

\* a set created with a destructor, filled with keys in ascending order
\* (every insert is above all members) and emptied in any order
NextAsc ==
  \/ /\ ops < MaxOpsAsc /\ UNCHANGED peers
     /\ \E v \in ValuesAsc : (\A m \in members : compare(m, v) < 0) /\ Insert(v)
  \/ /\ ops < MaxOpsAsc /\ UNCHANGED peers
     /\ \E v \in ValuesAsc : Member(v) /\ Remove(v)

SpecAsc == InitIns /\ [][NextAsc]_vars

\* a set created with a destructor and filled with the keys 1, 2, 3, ... in
\* this order; once a member was removed nothing is inserted any more
NextFill ==
  \/ /\ ops < MaxOpsFill /\ UNCHANGED peers
     /\ last.op \in {"create", "insert"}
     /\ Cardinality(members) < MaxKeyFill
     /\ Insert(Handle(Cardinality(members) + 1))
  \/ /\ ops < MaxOpsFill /\ UNCHANGED peers
     /\ \E v \in members : Remove(v)

SpecFill == InitIns /\ [][NextFill]_vars

\* set_destroy(set), lines 603-606; calls records the arguments of the
\* destructor.  The handle is freed: no call on the set may follow.
Destroy ==
  /\ Running
  /\ \E r \in {btree_destroy([h |-> [heap EXCEPT !.ub = FALSE], calls |-> <<>>],
                             root, destroy_value)} :
       \/ /\ r.h.crash \/ r.h.ub
          /\ Abort("destroy", NULL)
       \/ /\ ~r.h.crash
          /\ heap' = [r.h EXCEPT !.ub = heap.ub \/ r.h.ub]
          /\ last' = [op |-> "destroy", arg |-> NULL, ret |-> FALSE, done |-> TRUE,
                      calls |-> r.calls]
          /\ ops' = ops + 1
          /\ UNCHANGED <<root, size, destroy_value, members>>

\* set_destroy has not been called
Alive == last.op # "destroy"

\* a set that is filled, emptied and, at any moment, destroyed
NextDestroy ==
  \/ Alive /\ ops < MaxOpsDestroy /\ UNCHANGED peers /\ \E v \in Values : Insert(v)
  \/ Alive /\ ops < MaxOpsDestroy /\ UNCHANGED peers /\ \E v \in Values : Remove(v)
  \/ Alive /\ UNCHANGED peers /\ Destroy

SpecDestroy == Init /\ [][NextDestroy]_vars

\* round trip: distinct keys are inserted in any order, then the members
\* are removed in any order
ValuesRound == {Handle(k) : k \in 1..MaxKey}

NextRound ==
  \/ /\ last.op \in {"create", "insert"} /\ UNCHANGED peers
     /\ \E v \in ValuesRound : ~Member(v) /\ Insert(v)
  \/ UNCHANGED peers /\ \E v \in ValuesRound : Member(v) /\ Remove(v)

SpecRound == InitIns /\ [][NextRound]_vars

\* the set of the example: 10, 20, 30, 40, 50 arrive in ascending order,
\* members leave in any order
ValuesTens == {Handle(10 * k) : k \in 1..MaxKey}

NextTens ==
  \/ /\ ops < MaxOps /\ UNCHANGED peers
     /\ \E v \in ValuesTens : (\A m \in members : compare(m, v) < 0) /\ Insert(v)
  \/ /\ ops < MaxOps /\ UNCHANGED peers
     /\ \E v \in ValuesTens : Member(v) /\ Remove(v)

SpecTens == InitIns /\ [][NextTens]_vars

\* set_insert(other_set, value), lines 616-627, on the second B-tree set
InsertOther(value) ==
  /\ Running
  /\ Cardinality(FreeSN(heap)) >= 1
  /\ Cardinality(FreeBN(heap)) >= Height(heap, other) + 1
  /\ \E r \in {node_insert([heap EXCEPT !.ub = FALSE], other, value)} :
       \/ /\ r.h.crash \/ r.h.ub
          /\ Abort("insert_other", value)
          /\ other' = other
       \/ /\ ~r.h.crash
          /\ heap' = [r.h EXCEPT !.ub = heap.ub \/ r.h.ub]
          /\ other' = r.root
          /\ last' = [op |-> "insert_other", arg |-> value, ret |-> r.inserted, done |-> TRUE,
                      calls |-> <<>>]
          /\ ops' = ops + 1
          /\ UNCHANGED <<root, size, destroy_value, members>>

\* the set-node cells a client can hold: nodes that set_first, set_next,
\* set_find_node ... returned at some time, for either set
Handed == {s \in SNIds : heap.sn[s].value # NULL}

\* a read of node->owner and of the owner's slots that is not defined
stale_node(h, node) == Dangling(h, node) \/ ~h.bn[h.sn[node].owner].alloc

\* set_next(set, node), lines 633-635, with a node the client holds; ret
\* says that a node came back and not the sentinel
StepNext(node) ==
  /\ Running
  /\ \E r \in {set_next(heap, node)} :
       \/ /\ r.crash \/ stale_node(heap, node)
          /\ Abort("next", node)
       \/ /\ ~r.crash
          /\ heap' = MarkUB(heap, stale_node(heap, node))
          /\ last' = [op |-> "next", arg |-> node, ret |-> r.ret # NULL, done |-> TRUE,
                      calls |-> <<>>]
          /\ ops' = ops + 1
          /\ UNCHANGED <<root, size, destroy_value, members>>

\* set_previous(set, node), lines 629-631, with a node the client holds
StepPrevious(node) ==
  /\ Running
  /\ \E r \in {set_previous(heap, node)} :
       \/ /\ r.crash \/ stale_node(heap, node)
          /\ Abort("previous", node)
       \/ /\ ~r.crash
          /\ heap' = MarkUB(heap, stale_node(heap, node))
          /\ last' = [op |-> "previous", arg |-> node, ret |-> r.ret # NULL, done |-> TRUE,
                      calls |-> <<>>]
          /\ ops' = ops + 1
          /\ UNCHANGED <<root, size, destroy_value, members>>

\* two sets in one program; the client steps through the first set with
\* any node it holds
ValuesNav == {Handle(k) : k \in 1..MaxKeyNav}

NextNav ==
  \/ ops < MaxOpsNav /\ UNCHANGED peers /\ \E v \in ValuesNav : Insert(v)
  \/ ops < MaxOpsNav /\ UNCHANGED peers /\ \E v \in ValuesNav : Remove(v)
  \/ ops < MaxOpsNav /\ UNCHANGED <<bst, avl>> /\ \E v \in ValuesNav : InsertOther(v)
  \/ ops < MaxOpsNav /\ UNCHANGED peers /\ \E node \in Handed : StepNext(node)
  \/ ops < MaxOpsNav /\ UNCHANGED peers /\ \E node \in Handed : StepPrevious(node)

SpecNav == Init /\ [][NextNav]_vars

\* ------------------------------- the same calls on the other backends
\* set_insert of the BST backend, lines 266-276
BSTInsert(value) ==
  /\ FreeTN(bst.tn) # {}
  /\ \E r \in {bst_node_insert(bst.tn, bst.root, value)} :
       bst' = [bst EXCEPT !.tn = r.tn, !.root = r.node,
                          !.size = IF r.inserted THEN @ + 1 ELSE @,
                          !.ret = r.inserted,
                          !.calls = IF ~r.inserted /\ destroy_value
                                    THEN <<r.old_value>> ELSE <<>>]

\* set_remove of the BST backend, lines 278-292
BSTRemove(value) ==
  \E r \in {bst_node_remove(bst.tn, bst.root, value)} :
    bst' = [bst EXCEPT !.tn = r.tn, !.root = r.node,
                       !.size = IF r.removed THEN @ - 1 ELSE @,
                       !.ret = r.removed,
                       !.calls = IF r.removed /\ destroy_value
                                 THEN <<r.old_value>> ELSE <<>>]

\* set_visit of the BST backend, lines 370-377
BSTVisit ==
  bst' = [bst EXCEPT !.ret = FALSE, !.calls = bst_set_visit(bst.tn, bst.root)]

\* set_destroy of the BST backend, lines 305-308
BSTDestroy ==
  \E d \in {bst_node_destroy([tn |-> bst.tn, calls |-> <<>>, crash |-> FALSE],
                             bst.root, destroy_value)} :
    bst' = [bst EXCEPT !.tn = d.tn, !.ret = FALSE, !.calls = d.calls, !.crash = d.crash]

\* set_insert of the AVL backend, lines 373-383
AVLInsert(value) ==
  /\ FreeTN(avl.tn) # {}
  /\ \E r \in {avl_node_insert(avl.tn, avl.root, value)} :
       avl' = [avl EXCEPT !.tn = r.tn, !.root = r.node,
                          !.size = IF r.inserted THEN @ + 1 ELSE @,
                          !.ret = r.inserted,
                          !.calls = IF ~r.inserted /\ destroy_value
                                    THEN <<r.old_value>> ELSE <<>>]

\* set_remove of the AVL backend, lines 385-399
AVLRemove(value) ==
  \E r \in {avl_node_remove(avl.tn, avl.root, value)} :
    avl' = [avl EXCEPT !.tn = r.tn, !.root = r.node,
                       !.size = IF r.removed THEN @ - 1 ELSE @,
                       !.ret = r.removed,
                       !.calls = IF r.removed /\ destroy_value
                                 THEN <<r.old_value>> ELSE <<>>]

\* set_visit of the AVL backend, lines 486-488
AVLVisit ==
  avl' = [avl EXCEPT !.ret = FALSE, !.calls = avl_set_visit(avl.tn, avl.root)]

\* set_destroy of the AVL backend, lines 412-415
AVLDestroy ==
  \E d \in {avl_node_destroy([tn |-> avl.tn, calls |-> <<>>, crash |-> FALSE],
                             avl.root, destroy_value)} :
    avl' = [avl EXCEPT !.tn = d.tn, !.ret = FALSE, !.calls = d.calls, !.crash = d.crash]

\* no backend has ended the process and the sets are not destroyed
Live == Running /\ Alive /\ ~bst.crash /\ ~avl.crash

\* one client, three sets created with the same compare and destructor,
\* one per backend: every call is made on all three
ValuesEq == {Handle(k) : k \in 1..MaxKeyEq} \cup {Alias(k) : k \in 1..MaxAlias}

NextEq ==
  \/ /\ Live /\ ops < MaxOpsEq /\ other' = other
     /\ \E v \in ValuesEq : Insert(v) /\ BSTInsert(v) /\ AVLInsert(v)
  \/ /\ Live /\ ops < MaxOpsEq /\ other' = other
     /\ \E v \in ValuesEq : Remove(v) /\ BSTRemove(v) /\ AVLRemove(v)
  \/ /\ Live /\ ops < MaxOpsEq /\ other' = other
     /\ Visit /\ BSTVisit /\ AVLVisit
  \/ /\ Live /\ other' = other
     /\ Destroy /\ BSTDestroy /\ AVLDestroy

SpecEq == Init /\ [][NextEq]_vars

\* ------------------------------------------------- iteration by a client
\* for (n = set_first(set); n != SET_EOF; n = set_next(set, n)): the nodes
\* visited, at most fuel of them; ended says that the sentinel came back.
RECURSIVE walk_next(_, _, _)
walk_next(h, node, fuel) ==
  IF node = NULL THEN [nodes |-> <<>>, ended |-> TRUE]
  ELSE IF fuel = 0 THEN [nodes |-> <<>>, ended |-> FALSE]
  ELSE LET n == set_next(h, node)
       IN IF n.crash THEN [nodes |-> <<node>>, ended |-> FALSE]
          ELSE LET w == walk_next(h, n.ret, fuel - 1)
               IN [nodes |-> <<node>> \o w.nodes, ended |-> w.ended]

\* for (n = set_last(set); n != SET_BOF; n = set_previous(set, n))
RECURSIVE walk_previous(_, _, _)
walk_previous(h, node, fuel) ==
  IF node = NULL THEN [nodes |-> <<>>, ended |-> TRUE]
  ELSE IF fuel = 0 THEN [nodes |-> <<>>, ended |-> FALSE]
  ELSE LET n == set_previous(h, node)
       IN IF n.crash THEN [nodes |-> <<node>>, ended |-> FALSE]
          ELSE LET w == walk_previous(h, n.ret, fuel - 1)
               IN [nodes |-> <<node>> \o w.nodes, ended |-> w.ended]

Forward == walk_next(heap, set_first(heap, root), size + 1)
Backward == walk_previous(heap, set_last(heap, root), size + 1)

ValuesOf(h, nodes) == [i \in 1..Len(nodes) |-> h.sn[nodes[i]].value]
Reverse(q) == [i \in 1..Len(q) |-> q[Len(q) + 1 - i]]
Ascending(q) == \A i \in 1..(Len(q) - 1) : compare(q[i], q[i + 1]) < 0
Descending(q) == \A i \in 1..(Len(q) - 1) : compare(q[i], q[i + 1]) > 0
Range(q) == {q[i] : i \in 1..Len(q)}

\* the members of the abstract set in ascending order
RECURSIVE AscSeq(_)
AscSeq(S) ==
  IF S = {} THEN <<>>
  ELSE LET m == CHOOSE x \in S : \A y \in S : compare(x, y) <= 0
       IN <<m>> \o AscSeq(S \ {m})

TheMember(v) == CHOOSE m \in members : compare(m, v) = 0
Least == CHOOSE x \in members : \A y \in members : compare(x, y) <= 0
Greatest == CHOOSE x \in members : \A y \in members : compare(x, y) >= 0

\* a completed call of the named operation is the step being taken
Called(op) == last'.op = op /\ last'.done /\ ops' = ops + 1

\* ================================================================ claims

\* C1: set_find(v) returns a stored element (not NULL) exactly when a value
\* comparing equal to v was inserted and not removed since: membership seen
\* through set_find is that of the abstract set driven by the same calls.
C1_FindIsMembership ==
  Running => \A v \in Values \cup ValuesIns : (set_find(heap, root, v) # NULL) <=> Member(v)

\* C2: after any sequence of set_insert calls, set_size is the number of
\* distinct (by compare) values inserted.
C2_SizeCountsDistinct ==
  Running => set_size = Cardinality({KeyOf(m) : m \in members})

\* C3: set_remove(v) for a v equal to a member returns true, afterwards
\* set_find(v) is NULL and set_size is exactly one less than before.
C3_RemovePresent ==
  [][(Called("remove") /\ Member(last'.arg))
       => /\ last'.ret
          /\ set_find(heap', root', last'.arg) = NULL
          /\ size' = size - 1]_vars

\* C4: set_remove(v) when no member compares equal to v returns false and
\* changes nothing: size, root, every tree-node and set-node, the members;
\* the destructor is not invoked.
C4_RemoveAbsent ==
  [][(Called("remove") /\ ~Member(last'.arg))
       => /\ ~last'.ret
          /\ size' = size /\ root' = root
          /\ heap'.bn = heap.bn /\ heap'.sn = heap.sn
          /\ members' = members
          /\ last'.calls = <<>>]_vars

\* C5: set_first followed by set_next until SET_EOF visits exactly set_size
\* nodes, strictly ascending, every member once; set_next returns the
\* sentinel exactly on the node of the greatest member.
C5_ForwardTraversal ==
  Running =>
    LET w == Forward
        q == ValuesOf(heap, w.nodes)
    IN /\ w.ended
       /\ Len(q) = set_size
       /\ Ascending(q)
       /\ Range(q) = members
       /\ \A i \in 1..Len(q) :
            (~set_next(heap, w.nodes[i]).crash /\ set_next(heap, w.nodes[i]).ret = NULL)
              <=> q[i] = Greatest

\* C6: set_last followed by set_previous until SET_BOF visits exactly
\* set_size nodes, strictly descending, and that sequence is the reverse of
\* the set_first/set_next sequence.
C6_BackwardTraversal ==
  Running =>
    LET b == Backward
        f == Forward
    IN /\ b.ended
       /\ Len(b.nodes) = set_size
       /\ Descending(ValuesOf(heap, b.nodes))
       /\ b.nodes = Reverse(f.nodes)

\* C7: set_first and set_last return the sentinel exactly when the set is
\* empty; otherwise they return the nodes of the least and of the greatest
\* member.
C7_FirstLast ==
  Running =>
    /\ (set_first(heap, root) = NULL) <=> (members = {})
    /\ (set_last(heap, root) = NULL) <=> (members = {})
    /\ members # {} =>
         /\ set_first(heap, root) # NULL /\ set_last(heap, root) # NULL
         /\ set_node_value(heap, set_first(heap, root)) = Least
         /\ set_node_value(heap, set_last(heap, root)) = Greatest

\* C8: set_visit calls visit once per member with the stored value, in
\* ascending order (the order of the set_first/set_next traversal), and
\* leaves size, members and tree unchanged.
C8_Visit ==
  [][Called("visit")
       => /\ last'.calls = AscSeq(members)
          /\ last'.calls = ValuesOf(heap, Forward.nodes)
          /\ heap' = heap /\ root' = root /\ size' = size /\ members' = members]_vars

\* C9: set_insert(v) with a member m equal to v replaces m by v in place:
\* set_find(v) is v, size and every tree-node are unchanged and the
\* destructor, when installed, is invoked exactly once, on m; without an
\* equal member the destructor is not invoked.
C9_InsertReplaces ==
  [][Called("insert")
       => IF Member(last'.arg)
          THEN /\ set_find(heap', root', last'.arg) = last'.arg
               /\ size' = size
               /\ heap'.bn = heap.bn
               /\ root' = root
               /\ last'.calls = IF destroy_value THEN <<TheMember(last'.arg)>> ELSE <<>>
          ELSE last'.calls = <<>>]_vars

\* C10: a successful set_remove(v) with a destructor installed invokes it
\* exactly once, on the stored member that was removed, and on nothing else.
C10_RemoveDestroys ==
  [][(Called("remove") /\ last'.ret /\ destroy_value)
       => /\ Member(last'.arg)
          /\ last'.calls = <<TheMember(last'.arg)>>]_vars

\* ------------------------------------------------- the shape of the tree
\* the tree-nodes of the subtree of node: node and what children[0..count]
\* lead to
RECURSIVE Subtree(_, _)
Subtree(h, node) ==
  IF node = NULL THEN {}
  ELSE {node} \cup
       UNION {Subtree(h, h.bn[node].children[i]) : i \in {j \in ChildIdx : j <= h.bn[node].count}}

\* the values held in slots 0..count-1 of the tree-nodes of a subtree
ElementsOf(h, node) ==
  UNION {{h.sn[h.bn[n].set_nodes[i]].value : i \in {j \in ValueIdx : j < h.bn[n].count}} :
           n \in Subtree(h, node)}

\* the depths at which the paths through children[0..count] end
RECURSIVE LeafDepths(_, _)
LeafDepths(h, node) ==
  IF node = NULL THEN {0}
  ELSE {1 + d : d \in UNION {LeafDepths(h, h.bn[node].children[i]) :
                               i \in {j \in ChildIdx : j <= h.bn[node].count}}}

\* The elements a tree-node holds: the set-nodes in its slots 0..count-1
HeldBy(h, n) ==
  {h.bn[n].set_nodes[i] : i \in {j \in ValueIdx : j < h.bn[n].count}}

\* C13: after every completed set_insert and set_remove every non-root
\* tree-node holds between MIN_VALUES and MAX_VALUES elements and a non-NULL
\* root holds between 1 and MAX_VALUES elements
C13_Occupancy ==
  (Running /\ last.done) =>
    \A n \in Subtree(heap, root) :
      /\ heap.bn[n].count <= MAX_VALUES
      /\ Cardinality(HeldBy(heap, n)) <= MAX_VALUES
      /\ Cardinality(HeldBy(heap, n)) >= (IF n = root THEN 1 ELSE MIN_VALUES)

\* C14: after every completed set_insert and set_remove all leaves are at
\* the same depth: every path from the root through children[0..count] has
\* the same length.
C14_HeightBalance ==
  (Running /\ last.done) => Cardinality(LeafDepths(heap, root)) = 1

\* C15: after every completed set_insert and set_remove the elements of
\* every tree-node are strictly ascending, and an element at position i of
\* an internal node is greater than every element under child i and less
\* than every element under child i+1.
C15_SearchOrder ==
  (Running /\ last.done) =>
    \A n \in Subtree(heap, root) :
      LET c == heap.bn[n].count
          val(i) == heap.sn[heap.bn[n].set_nodes[i]].value
      IN /\ \A i \in 0..(c - 2) : i + 1 \in ValueIdx => compare(val(i), val(i + 1)) < 0
         /\ \A i \in 0..(c - 1) : (i \in ValueIdx /\ ~is_leaf(heap, n)) =>
              /\ \A e \in ElementsOf(heap, heap.bn[n].children[i]) : compare(e, val(i)) < 0
              /\ \A e \in ElementsOf(heap, heap.bn[n].children[i + 1]) : compare(e, val(i)) > 0

\* C20: after every completed set_insert and set_remove a tree-node with k
\* elements is a leaf with every child slot NULL, or has child slots 0..k
\* non-NULL and every child slot beyond k NULL.
C20_ChildCount ==
  (Running /\ last.done) =>
    \A n \in Subtree(heap, root) :
      LET k == heap.bn[n].count
          ch == heap.bn[n].children
      IN \/ \A i \in ChildIdx : ch[i] = NULL
         \/ \A i \in ChildIdx : (ch[i] # NULL) <=> (i <= k)

\* the values in slots 0..count-1 of tree-node n
OwnValues(h, n) ==
  {h.sn[h.bn[n].set_nodes[i]].value : i \in {j \in ValueIdx : j < h.bn[n].count}}

\* C11: set_destroy invokes the installed destructor exactly once on every
\* member and on nothing else, on the elements below a tree-node before the
\* node's own elements, and frees every tree-node reachable from the root
\* exactly once.
C11_Destroy ==
  [][Called("destroy")
       => /\ Len(last'.calls) = (IF destroy_value THEN Cardinality(members) ELSE 0)
          /\ Range(last'.calls) = (IF destroy_value THEN members ELSE {})
          /\ \A n \in Subtree(heap, root) : \A i, j \in 1..Len(last'.calls) :
               (/\ last'.calls[i] \in OwnValues(heap, n)
                /\ last'.calls[j] \in ElementsOf(heap, n) \ OwnValues(heap, n)) => j < i
          /\ \A n \in Subtree(heap, root) : heap.bn[n].alloc /\ ~heap'.bn[n].alloc
          /\ heap'.ub = heap.ub]_vars

\* C12: inserting n distinct elements in any order and then removing all n
\* in any order leaves the set empty: set_size is 0, the root is NULL and
\* set_first and set_last return the sentinel.
C12_RoundTrip ==
  (Running /\ last.done /\ last.op = "remove" /\ members = {})
    => /\ set_size = 0
       /\ root = NULL
       /\ set_first(heap, root) = NULL
       /\ set_last(heap, root) = NULL

\* C16: inserting 1,2,...,8 in that order into a fresh set yields a tree
\* whose root is an internal node with at most 4 elements and whose leaves
\* are at equal depth; set_first gives 1, set_last gives 8 and the
\* set_first/set_next traversal gives exactly 1,2,...,8.
C16_ExampleEight ==
  (Running /\ last.done /\ ops = 8 /\ members = {Handle(k) : k \in 1..8})
    => /\ root # NULL /\ ~is_leaf(heap, root)
       /\ heap.bn[root].count <= MAX_VALUES
       /\ Cardinality(LeafDepths(heap, root)) = 1
       /\ set_node_value(heap, set_first(heap, root)) = Handle(1)
       /\ set_node_value(heap, set_last(heap, root)) = Handle(8)
       /\ Forward.ended
       /\ ValuesOf(heap, Forward.nodes) = [k \in 1..8 |-> Handle(k)]

\* C17: after inserting 10,20,30,40,50 in order and removing 30 the tree
\* passes set_is_proper, set_size is 4 and the traversal gives exactly
\* 10,20,40,50.
C17_ExampleRemoveSeparator ==
  (/\ Running /\ last.done /\ ops = 6
   /\ last.op = "remove" /\ last.arg = Handle(30)
   /\ members = {Handle(10), Handle(20), Handle(40), Handle(50)})
    => /\ ~set_is_proper(heap, root).ub
       /\ set_is_proper(heap, root).ret
       /\ set_size = 4
       /\ Forward.ended
       /\ ValuesOf(heap, Forward.nodes) = <<Handle(10), Handle(20), Handle(40), Handle(50)>>

\* the set-nodes in slots 0..count-1 of the tree-nodes of the tree of r
NodesOf(h, r) ==
  UNION {{h.bn[n].set_nodes[i] : i \in {j \in ValueIdx : j < h.bn[n].count}} :
           n \in Subtree(h, r)}

\* C18: set_next or set_previous called with a node that does not belong
\* to the given set ends the process and never returns a node or the
\* sentinel.
C18_ForeignNodeAsserts ==
  [][(/\ last'.op \in {"next", "previous"} /\ ops' = ops + 1
      /\ last'.arg \notin NodesOf(heap, root))
       => ~last'.done]_vars

\* how often each value occurs in a sequence
BagOf(q) == [v \in Range(q) |-> Cardinality({i \in 1..Len(q) : q[i] = v})]

\* C19: the three backends are interchangeable: under the same calls they
\* return the same results (set_remove, set_size, set_find, the
\* set_first/set_next traversal), make the same sequence of visit calls and
\* the same multiset of destructor calls, and none ends the process alone.
C19_Interchangeable ==
  /\ bst.crash = heap.crash /\ avl.crash = heap.crash
  /\ (Running /\ last.done) =>
       /\ bst.ret = last.ret /\ avl.ret = last.ret
       /\ IF last.op = "visit"
          THEN bst.calls = last.calls /\ avl.calls = last.calls
          ELSE BagOf(bst.calls) = BagOf(last.calls) /\ BagOf(avl.calls) = BagOf(last.calls)
       /\ Alive =>
            /\ bst.size = set_size /\ avl.size = set_size
            /\ \A v \in ValuesEq :
                 /\ bst_set_find(bst, v) = set_find(heap, root, v)
                 /\ bst_set_find(avl, v) = set_find(heap, root, v)
            /\ Forward.ended
            /\ bst_walk(bst.tn, bst.root, bst_node_find_min(bst.tn, bst.root))
                 = ValuesOf(heap, Forward.nodes)
            /\ bst_walk(avl.tn, avl.root, bst_node_find_min(avl.tn, avl.root))
                 = ValuesOf(heap, Forward.nodes)

\* C21: after every completed set_insert and set_remove the root, if any,
\* has parent NULL, and every child in slots 0..count of a tree-node N of
\* the tree has parent N.
C21_ParentBackRef ==
  (Running /\ last.done) =>
    /\ root # NULL => heap.bn[root].parent = NULL
    /\ \A n \in Subtree(heap, root) :
         \A i \in ChildIdx :
           (i <= heap.bn[n].count /\ heap.bn[n].children[i] # NULL)
             => heap.bn[heap.bn[n].children[i]].parent = n
\* a set_remove has completed on a tree of three levels after a merge freed
\* a tree-node, so children have changed hands between internal tree-nodes
C21_Witness ==
  /\ Running /\ last.done /\ last.op = "remove" /\ last.ret
  /\ Height(heap, root) = 3
  /\ \E m \in BNIds : ~heap.bn[m].alloc /\ heap.bn[m].count > 0
\* C22: after every completed set_insert and set_remove every set-node in
\* slots 0..count-1 of a tree-node N of the tree has owner N.
C22_OwnerBackRef ==
  (Running /\ last.done) =>
    \A n \in Subtree(heap, root) :
      \A s \in HeldBy(heap, n) : heap.sn[s].owner = n
\* the leaf that a set_insert of the new value v overflows, NULL when the
\* insert does not split
SplitLeaf(v) ==
  IF root = NULL THEN NULL
  ELSE LET f == node_find(heap, root, v)
       IN IF f.node # NULL /\ f.index = -1 /\ heap.bn[f.node].count = MAX_VALUES
          THEN f.node ELSE NULL

\* the element of rank k (0 is the least) among the set-nodes S, by the
\* values they hold in heap h
Ranked(h, S, k) ==
  CHOOSE s \in S : Cardinality({t \in S : compare(h.sn[t].value, h.sn[s].value) < 0}) = k

\* C23: a split of a tree-node holding the five elements e0 < ... < e4
\* leaves e0, e1 in the node, puts e3, e4 (each once) in the new right
\* sibling and promotes exactly e2: into a new root holding only e2 with the
\* two halves as children 0 and 1, or into the parent next to the two
\* halves; a parent that reaches five elements is split in turn, keeps two
\* elements and hands its upper three children to its new sibling.
C23_Split ==
  [][(Called("insert") /\ SplitLeaf(last'.arg) # NULL) =>
      LET n == SplitLeaf(last'.arg)
          right == Min(FreeBN(heap))
          next == Min(FreeBN(heap) \ {right})
          five == HeldBy(heap, n) \cup {Min(FreeSN(heap))}
          e(k) == Ranked(heap', five, k)
          par == heap.bn[n].parent
      IN /\ Cardinality(five) = MAX_VALUES + 1
         /\ heap'.bn[n].count = 2
         /\ heap'.bn[n].set_nodes[0] = e(0) /\ heap'.bn[n].set_nodes[1] = e(1)
         /\ heap'.bn[right].alloc /\ heap'.bn[right].count = 2
         /\ heap'.bn[right].set_nodes[0] = e(3) /\ heap'.bn[right].set_nodes[1] = e(4)
         /\ heap'.bn[right].parent = heap'.bn[n].parent
         /\ IF par = NULL
            THEN /\ root' = next /\ heap'.bn[next].alloc
                 /\ heap'.bn[next].count = 1 /\ heap'.bn[next].set_nodes[0] = e(2)
                 /\ heap'.bn[next].children[0] = n /\ heap'.bn[next].children[1] = right
                 /\ heap'.bn[n].parent = next
            ELSE IF heap.bn[par].count < MAX_VALUES
            THEN /\ heap'.bn[par].count = heap.bn[par].count + 1
                 /\ HeldBy(heap', par) = HeldBy(heap, par) \cup {e(2)}
                 /\ \E i \in ValueIdx :
                      /\ heap'.bn[par].set_nodes[i] = e(2)
                      /\ heap'.bn[par].children[i] = n
                      /\ heap'.bn[par].children[i + 1] = right
            ELSE /\ heap'.bn[par].count = 2
                 /\ heap'.bn[next].alloc /\ heap'.bn[next].count = 2
                 /\ \A i \in ChildIdx :
                      IF i <= 2
                      THEN /\ heap'.bn[next].children[i] # NULL
                           /\ heap'.bn[heap'.bn[next].children[i]].parent = next
                      ELSE heap'.bn[next].children[i] = NULL
                 /\ \A m \in Subtree(heap', root') : heap'.bn[m].count <= MAX_VALUES]_vars
\* the heap with the high-water mark of count started afresh
Fresh(h) == [h EXCEPT !.peak = 0]

\* C24: at every step inside set_insert and set_remove no count of a
\* tree-node exceeds MAX_VALUES + 1 and no write goes past the end of
\* set_nodes (0..MAX_VALUES) or children (0..MAX_CHILDREN); a count of
\* MAX_VALUES + 1 is reached only inside an insert and no tree-node of the
\* tree has it when the call returns.
C24_Capacity ==
  /\ ~heap.over
  /\ heap.peak <= MAX_VALUES + 1
  /\ (Running /\ last.done) =>
       \A n \in Subtree(heap, root) : heap.bn[n].count <= MAX_VALUES
  /\ Running =>
       \A v \in Values \cup ValuesAsc :
         /\ ~node_remove(Fresh(heap), root, v).h.over
         /\ node_remove(Fresh(heap), root, v).h.peak <= MAX_VALUES
         /\ Room => /\ ~node_insert(Fresh(heap), root, v).h.over
                    /\ node_insert(Fresh(heap), root, v).h.peak <= MAX_VALUES + 1
\* a set_remove has completed after some insert filled a tree-node to
\* MAX_VALUES + 1 and split it, and after a merge freed a tree-node
C24_Witness ==
  /\ Running /\ last.done /\ last.op = "remove" /\ last.ret
  /\ heap.peak = MAX_VALUES + 1
  /\ Height(heap, root) >= 2
  /\ \E m \in BNIds : ~heap.bn[m].alloc /\ heap.bn[m].count > 0
\* the set-node holding the greatest value among the set-nodes S
Greatest_of(h, S) == CHOOSE s \in S : \A t \in S : compare(h.sn[t].value, h.sn[s].value) <= 0

\* C25: a set_remove whose target is at position i of an internal
\* tree-node refills that slot with the greatest element under child i,
\* which comes from a leaf; the internal node keeps its count, the leaf
\* loses exactly that element and the repair starts at the leaf; every other
\* tree-node is left alone by this step.
C25_InternalDelete ==
  Running =>
    \A v \in members :
      LET f == node_find(heap, root, v)
      IN (f.node # NULL /\ f.index # -1 /\ ~is_leaf(heap, f.node)) =>
           LET n == f.node
               i == f.index
               child == heap.bn[n].children[i]
               h0 == free_set_node(heap, heap.bn[n].set_nodes[i])
               max == node_find_max(h0, child)
               h1 == replace_by_max(h0, n, i, max)
               leaf == h0.sn[max].owner
           IN /\ ~h1.crash
              /\ max = Greatest_of(heap, NodesOf(heap, child))
              /\ heap.sn[max].alloc
              /\ leaf \in Subtree(heap, child) /\ is_leaf(heap, leaf)
              /\ h1.bn[n].set_nodes[i] = max
              /\ h1.bn[n].count = heap.bn[n].count
              /\ h1.bn[leaf].count = heap.bn[leaf].count - 1
              /\ max \notin HeldBy(h1, leaf)
              /\ HeldBy(h1, leaf) = HeldBy(heap, leaf) \ {max}
              /\ \A m \in BNIds \ {n, leaf} : h1.bn[m] = heap.bn[m]
\* C26: a set_remove that empties the root discards it: child 0 of the old
\* root becomes the root with parent NULL and the tree is one level lower,
\* or the root becomes NULL when the old root was a leaf; the root is
\* replaced in no other case, and a root never stays with count 0.
C26_RootCollapse ==
  [][Called("remove") =>
      /\ root' # NULL => heap'.bn[root'].count > 0
      /\ root' # root =>
           /\ ~heap'.bn[root].alloc
           /\ heap'.bn[root].count = 0
           /\ root' = heap'.bn[root].children[0]
           /\ IF is_leaf(heap, root)
              THEN root' = NULL
              ELSE /\ root' # NULL /\ heap'.bn[root'].alloc
                   /\ heap'.bn[root'].parent = NULL
                   /\ Height(heap', root') = Height(heap, root) - 1]_vars
\* a set_remove has just emptied an internal root: the freed cell of the old
\* root still shows count 0 and the new root as its child 0
C26_Witness ==
  /\ Running /\ last.done /\ last.op = "remove" /\ last.ret
  /\ root # NULL /\ heap.bn[root].parent = NULL
  /\ \E m \in BNIds :
       /\ ~heap.bn[m].alloc /\ heap.bn[m].count = 0
       /\ heap.bn[m].children[0] = root
\* following parent from node ends at NULL within fuel steps: the loops of
\* lines 507 and 539 and the upward recursion of split, merge and
\* repair_underflow stop
RECURSIVE ClimbEnds(_, _, _)
ClimbEnds(h, node, fuel) ==
  \/ node = NULL
  \/ fuel > 0 /\ ClimbEnds(h, h.bn[node].parent, fuel - 1)

\* following children[0..count] from node ends at leaves within fuel
\* levels: the recursion of node_find, node_find_min and node_find_max stops
RECURSIVE DescentEnds(_, _, _)
DescentEnds(h, node, fuel) ==
  \/ node = NULL
  \/ /\ fuel > 0
     /\ \A i \in {j \in ChildIdx : j <= h.bn[node].count} :
          DescentEnds(h, h.bn[node].children[i], fuel - 1)

\* C27: every set_insert, set_remove, set_find, set_next and set_previous
\* call terminates: the descent from the root and the climb from every
\* tree-node and from the owner of every element end, every tree-node below
\* the root is among the children 0..count of its parent, and the separator
\* searches of tranfer_right, transfer_left and merge find it there.
C27_Termination ==
  /\ ~heap.lost
  /\ Running =>
       /\ DescentEnds(heap, root, MaxBN)
       /\ \A n \in Subtree(heap, root) \ {root} :
            /\ heap.bn[n].parent # NULL
            /\ \E k \in ChildIdx : /\ k <= heap.bn[heap.bn[n].parent].count
                                   /\ heap.bn[heap.bn[n].parent].children[k] = n
       /\ \A n \in Subtree(heap, root) : ClimbEnds(heap, n, MaxBN)
       /\ \A s \in NodesOf(heap, root) : ClimbEnds(heap, heap.sn[s].owner, MaxBN)
       /\ \A v \in Values \cup ValuesAsc :
            /\ ~node_remove(heap, root, v).h.lost
            /\ Room => ~node_insert(heap, root, v).h.lost
\* a set_remove has completed whose merges climbed to the root of a tree
\* built by splits: a merged sibling and the emptied old root are freed
C27_Witness ==
  /\ Running /\ last.done /\ last.op = "remove" /\ last.ret
  /\ root # NULL /\ ~heap.lost /\ heap.peak = MAX_VALUES + 1
  /\ \E m \in BNIds : ~heap.bn[m].alloc /\ heap.bn[m].count > 0
  /\ \E m \in BNIds : /\ ~heap.bn[m].alloc /\ heap.bn[m].count = 0
                       /\ heap.bn[m].children[0] = root

\* values handed to visit by a traversal of the tree
Traversed(h, r) == {btree_set_visit(h, r)[i] : i \in 1..Len(btree_set_visit(h, r))}

\* C28: a value the set has passed to the destructor is not a member
\* afterwards: when set_insert or set_remove returns, no value it handed to
\* destroy_value is returned by set_find or reached by a traversal.
C28_DestroyedNotMember ==
  (Running /\ last.done /\ last.op \in {"insert", "remove"}) =>
    \A i \in 1..Len(last.calls) :
      /\ set_find(heap, root, last.calls[i]) # last.calls[i]
      /\ last.calls[i] \notin Traversed(heap, root)


\* the member of S next above x, next below x; NULL when there is none
SuccessorIn(S, x) ==
  LET up == {m \in S : compare(m, x) > 0}
  IN IF up = {} THEN NULL ELSE CHOOSE m \in up : \A y \in up : compare(m, y) <= 0
PredecessorIn(S, x) ==
  LET down == {m \in S : compare(m, x) < 0}
  IN IF down = {} THEN NULL ELSE CHOOSE m \in down : \A y \in down : compare(m, y) >= 0

\* C29: the node a client holds for member x stays the node of x across a
\* completed set_insert or set_remove of another element: set_find_node(x)
\* returns the same node, the node holds the same value, and set_next and
\* set_previous of the held node return the nodes of the successor and of
\* the predecessor of x in the set as it now is (the sentinel when there is
\* none).
C29_NodeStable ==
  [][(Called("insert") \/ Called("remove")) =>
      \A x \in members :
        LET node == set_find_node(heap, root, x)
        IN (compare(x, last'.arg) # 0 /\ node # NULL /\ heap.sn[node].value = x) =>
             /\ set_find_node(heap', root', x) = node
             /\ heap'.sn[node].alloc
             /\ set_node_value(heap', node) = x
             /\ ~set_next(heap', node).crash
             /\ set_node_value(heap', set_next(heap', node).ret) = SuccessorIn(members', x)
             /\ ~set_previous(heap', node).crash
             /\ set_node_value(heap', set_previous(heap', node).ret) = PredecessorIn(members', x)]_vars

====
